---- MODULE Spec2Model ----
(***************************************************************************)
(* Model of the incremental aggregation engine of scraper.py:              *)
(*   - main(): the pipeline orchestrator, merge_new_tools / merge_tools,   *)
(*     load_checkpoint / save_checkpoint             (specification Spec)  *)
(*   - extract_github_info(): the metadata lookup with its durable cache,  *)
(*     its lru_cache memo and its retries      (specification SpecLookup)  *)
(*   - merge_tools() on its own, applied to pairs of records               *)
(*                                              (specification SpecMerge)  *)
(* The parts share no state in the code paths modelled; each               *)
(* specification holds the other parts' variables at their initial value.  *)
(***************************************************************************)
EXTENDS Integers, Sequences, FiniteSets, TLC

VARIABLES
    \* ---- main(), one process at a time
    pc,              \* position of the process in main()
    stage,           \* index of the stage main is at (1..NumStages)
    existing_tools,  \* main's dict: sequence of [k |-> key, v |-> Tool], insertion order
    tools,           \* main's list `tools`
    new_tools,       \* the list the stage returned, until save_checkpoint is entered
    ckpt,            \* content of CHECKPOINT_FILE: Absent, Corrupt or File(sequence of dicts)
    backups,         \* backups[t]: content of CHECKPOINT_FILE.bak.<t>, or Absent
    now,             \* int(time.time())
    runs,            \* number of process starts so far
    base,            \* history: the working set (set of Tools) at the end of the previous stage;
                     \* after a kill, that of the killed process
    failedStage,     \* history: the stage whose call raised out of main (0: none)
    trail,           \* history: what main did in this process, as <<event, stage>>
    made,            \* history: every backup file created, as [t, content]
    lastSaved,       \* history: the list the last save_checkpoint that succeeded wrote
    \* ---- extract_github_info()
    github_cache,    \* the module-level dict: set of [url, info]
    cache_file,      \* content of GITHUB_CACHE_FILE: CacheAbsent, CacheCorrupt or CacheFile(set of [url, info])
    memo,            \* lru_cache: sequence of [key, val, n], least recently used first
    lpc,             \* "idle" or "attempt" (inside a lookup, about to sleep and call gh)
    lurl,            \* the url of the lookup in progress / last lookup
    retry_count,     \* retry_count of the innermost active call
    outcomes,        \* history: what each provider call of the current / last lookup ended in
    slept,           \* history: the delays slept by the current / last lookup
    result,          \* the value the last lookup returned (NoResult before the first)
    cause,           \* history: why the last lookup returned what it returned
    fetched,         \* history: every [url, info] a successful provider response has produced
    defaulted,       \* history: the urls a lookup of which called the provider and ended in the default
    lookups,         \* number of top-level lookups so far
    base_delay,      \* GITHUB_RATE_LIMIT_SLEEP, drawn once per process
    since,           \* history: for each url looked up in this process, [url, n]: n results
                     \* were memoized since its last lookup returned (counted up to LRU_MAXSIZE)
    lastGap,         \* history: `n` of the url of the current / last lookup when the lookup
                     \* started, -1 if the url had not been looked up in this process
    bulks,           \* number of bulk lookups of other urls in this process
    persisted,       \* history: the entries [url, info] a lookup has fetched, written
                     \* to the cache file and returned, in any process
    \* ---- merge_tools()
    mpc,             \* "rest", "input", "merged" or "again"
    merge_existing,  \* the argument `existing`
    merge_new,       \* the argument `new`
    merged,          \* merge_tools(existing, new)
    merged_rev,      \* merge_tools(new, existing)
    merged_again,    \* merge_tools(existing, merge_tools(existing, new))
    \* ---- main: finalization
    tools_data,      \* the list `tools_data`
    categories,      \* the dict `categories`, in insertion order
    category_stats,  \* content of category_stats.json: Absent, Corrupt or File(dict)
    tools_json,      \* content of tools.json: Absent, Corrupt or File(sequence of dicts)
    \* ---- determine_importance()
    ipc,             \* "rest", "input" or "returned"
    iname,           \* the argument `name`
    istars,          \* the argument `stars` of a first call
    imore,           \* the argument `stars` of a second call, not less than the first
    ireturned,       \* what the first call returned
    ireturned_more, \* what the second call returned
    \* ---- extract_docker_tools() and the fold of its output
    spc,             \* "rest", "input", "extracted" or "folded"
    scategory,       \* the argument `category`
    sresults,        \* data.get('results', []) of the Docker Hub response
    sexisting,       \* the dict the output is folded into
    sextracted,      \* the list extract_docker_tools returned
    sfolded,         \* merge_new_tools(sexisting, sextracted)
    \* ---- two processes on one cache file
    cpc,             \* cpc[p]: "off" or "loaded" (the module is loaded, lookups go on)
    caches,          \* caches[p]: the module-level dict github_cache of process p
    written,         \* history: every entry [url, info] a save has written to the file
    \* ---- run_github_query()
    qpc,             \* "rest", "calling" or "returned"
    qquery,          \* the argument `query`
    attempt,         \* the loop variable `attempt`
    qwaits,          \* history: the wait_time of every time.sleep
    qoutcomes,       \* history: what each command ended in
    qresult          \* the list returned

mainVars == <<pc, stage, existing_tools, tools, new_tools, ckpt, backups, now, runs,
              base, failedStage, trail, made, lastSaved>>
lookupVars == <<github_cache, cache_file, memo, lpc, lurl, retry_count, outcomes, slept,
                result, cause, fetched, defaulted, lookups, base_delay, since, lastGap,
                bulks, persisted>>
mergeVars == <<mpc, merge_existing, merge_new, merged, merged_rev, merged_again>>
finalVars == <<tools_data, categories, category_stats, tools_json>>
importanceVars == <<ipc, iname, istars, imore, ireturned, ireturned_more>>
sourceVars == <<spc, scategory, sresults, sexisting, sextracted, sfolded>>
concurrentVars == <<cpc, caches, written>>
queryVars == <<qpc, qquery, attempt, qwaits, qoutcomes, qresult>>
vars == <<pc, stage, existing_tools, tools, new_tools, ckpt, backups, now, runs,
          base, failedStage, trail, made, lastSaved,
          github_cache, cache_file, memo, lpc, lurl, retry_count, outcomes, slept,
          result, cause, fetched, defaulted, lookups, base_delay, since, lastGap, bulks,
          persisted,
          mpc, merge_existing, merge_new, merged, merged_rev, merged_again,
          tools_data, categories, category_stats, tools_json,
          ipc, iname, istars, imore, ireturned, ireturned_more,
          spc, scategory, sresults, sexisting, sextracted, sfolded,
          cpc, caches, written,
          qpc, qquery, attempt, qwaits, qoutcomes, qresult>>

(***************************************************************************)
(* Bounds of the model                                                     *)
(***************************************************************************)
MaxStageLen == 2     \* longest list a stage returns
MaxRuns == 2         \* process starts (a run that was killed or raised is followed by a new one)
MaxTime == 1         \* the clock runs over 0..MaxTime
MaxLookups == 2      \* top-level lookups over all processes of the lookup specification
MaxBulks == 1        \* bulk lookups of other urls in one process

\* the content of a file: none, one json.load rejects, or a JSON value
Absent == [st |-> "absent", data |-> <<>>]
Corrupt == [st |-> "corrupt", data |-> <<>>]
File(data) == [st |-> "ok", data |-> data]

Range(s) == {s[i] : i \in 1..Len(s)}

Min(a, b) == IF a <= b THEN a ELSE b

RECURSIVE Pow2(_)
Pow2(n) == IF n = 0 THEN 1 ELSE 2 * Pow2(n - 1)

RECURSIVE SetToSeq(_)
\* a JSON array holding the elements of a set, in some fixed order
SetToSeq(S) == IF S = {} THEN <<>>
               ELSE LET x == CHOOSE y \in S : TRUE IN <<x>> \o SetToSeq(S \ {x})

(***************************************************************************)
(* The Record ("Tool") and the candidate records of the model              *)
(***************************************************************************)
\* common.Tool: the constructor with the defaults of the fields a caller may omit
Tool(name, description, category, importance, isOpenSource, url, documentationUrl, githubUrl, stars, language, topics, tags) ==
    [name |-> name, description |-> description, category |-> category,
     importance |-> importance, isOpenSource |-> isOpenSource, url |-> url,
     documentationUrl |-> documentationUrl, githubUrl |-> githubUrl,
     stars |-> stars, language |-> language, topics |-> topics, tags |-> tags]

DefaultStars == 0
DefaultLanguage == ""
DefaultTopics == <<>>

\* None in the place of a list of tags: a value no list of tags of the model equals
None == <<"<None>">>

KongGithub == "https://github.com/Kong/kong"
KongHome == "https://konghq.com"

\* the record of the awesome list in the example scenario
KongAwesome ==
    Tool("Kong", "", "API Gateway", "Optional", TRUE, "", "", KongGithub, 0, "", <<>>, <<>>)
\* the record of the GitHub topic search in the example scenario
KongTopic ==
    Tool("Kong", "Cloud-native API gateway", "API Gateway", "Essential", TRUE, KongHome,
         "", KongGithub, 38000, "Lua", <<"api-gateway">>, <<"gateway">>)
\* same entity as KongTopic, other letter case, other scalar fields
KongLower ==
    Tool("kong", "api proxy", "API Management", "Optional", FALSE, KongHome,
         "https://docs.konghq.com", KongGithub, 120, "Go", <<"proxy">>, <<"proxy", "gateway">>)
\* same identity key as KongAwesome, with fields KongAwesome leaves empty
KongDocs ==
    Tool("KONG", "gateway", "API Gateway", "Recommended", TRUE, "", "https://docs.konghq.com",
         KongGithub, 7000, "Lua", <<>>, <<"lua">>)
Candidates == {KongAwesome, KongTopic, KongLower, KongDocs}

\* str.lower() on the names of the model
lowercase(s) == CASE s = "Kong" -> "kong"
                  [] s = "KONG" -> "kong"
                  [] s = "Istio" -> "istio"
                  [] s = "Kubernetes" -> "kubernetes"
                  [] s = "Docker" -> "docker"
                  [] s = "GIT" -> "git"
                  [] s = "API Gateway" -> "api gateway"
                  [] s = "Logging" -> "logging"
                  [] OTHER -> s

\* a `x or y` that takes the second operand when it is non-empty
Or_incoming_first(x, y) == IF y # "" THEN y ELSE x

\* a Python `x or y` on strings: the empty string is falsy
Or(x, y) == IF x # "" THEN x ELSE y

\* every list of at most MaxStageLen candidate records
StageOutputs == UNION {[1..n -> Candidates] : n \in 0..MaxStageLen}

(***************************************************************************)
(* main's dictionary, a Python dict in insertion order                     *)
(***************************************************************************)
HasKey(d, k) == \E i \in 1..Len(d) : d[i].k = k

Get(d, k) == d[CHOOSE i \in 1..Len(d) : d[i].k = k].v

\* d[k] = v: an existing key keeps its place, a new key goes last
Put(d, k, v) ==
    IF HasKey(d, k)
    THEN [i \in 1..Len(d) |-> IF d[i].k = k THEN [k |-> k, v |-> v] ELSE d[i]]
    ELSE Append(d, [k |-> k, v |-> v])

\* list(d.values())
Values(d) == [i \in 1..Len(d) |-> d[i].v]

\* a key of the name alone
Key_name_only(t) == <<lowercase(t.name), "", "">>

\* a key that keeps the letter case of the name
Key_case_sensitive(t) == <<t.name, t.url, t.githubUrl>>

\* the identity key main computes: (t.name.lower(), t.url, t.githubUrl)
Key(t) == <<lowercase(t.name), t.url, t.githubUrl>>

RECURSIVE DictOfTools(_)
\* {(t.name.lower(), t.url, t.githubUrl): t for t in ts}
DictOfTools(ts) ==
    IF ts = <<>> THEN <<>>
    ELSE LET n == Len(ts) IN Put(DictOfTools(SubSeq(ts, 1, n - 1)), Key(ts[n]), ts[n])

(***************************************************************************)
(* merge_tools and merge_new_tools                                         *)
(***************************************************************************)
\* a Python `x or []` on a list or None
OrList(x) == IF x = None \/ x = <<>> THEN <<>> ELSE x

\* tags taken like the scalar fields: existing's unless empty
merge_tags_existing_first(xs, ys) == IF OrList(xs) # <<>> THEN xs ELSE ys

\* `^` for `|`: the tags that one of the two records has and the other has not
merge_tags_symmetric_difference(xs, ys) ==
    SetToSeq((Range(OrList(xs)) \ Range(OrList(ys))) \cup (Range(OrList(ys)) \ Range(OrList(xs))))

\* list(set(existing.tags or []) | set(new.tags or [])): the list of a set has
\* each element once, in an order the set decides
merge_tags(xs, ys) == SetToSeq(Range(OrList(xs)) \cup Range(OrList(ys)))

\* a merge that takes the name from `new` and ors the two flags
merge_tools_identity_of_new(existing, new) ==
    Tool(new.name,
         Or(existing.description, new.description),
         Or(existing.category, new.category),
         Or(existing.importance, new.importance),
         existing.isOpenSource \/ new.isOpenSource,
         Or(existing.url, new.url),
         Or(existing.documentationUrl, new.documentationUrl),
         Or(existing.githubUrl, new.githubUrl),
         DefaultStars, DefaultLanguage, DefaultTopics,
         merge_tags(existing.tags, new.tags))

\* a merge that passes on the stars, language and topics of `existing`
merge_tools_keeping_measured(existing, new) ==
    Tool(existing.name,
         Or(existing.description, new.description),
         Or(existing.category, new.category),
         Or(existing.importance, new.importance),
         existing.isOpenSource,
         Or(existing.url, new.url),
         Or(existing.documentationUrl, new.documentationUrl),
         Or(existing.githubUrl, new.githubUrl),
         existing.stars, existing.language, existing.topics,
         merge_tags(existing.tags, new.tags))

\* stars, language and topics are not passed to the constructor
merge_tools(existing, new) ==
    Tool(existing.name,
         Or(existing.description, new.description),
         Or(existing.category, new.category),
         Or(existing.importance, new.importance),
         existing.isOpenSource,
         Or(existing.url, new.url),
         Or(existing.documentationUrl, new.documentationUrl),
         Or(existing.githubUrl, new.githubUrl),
         DefaultStars, DefaultLanguage, DefaultTopics,
         merge_tags(existing.tags, new.tags))

RECURSIVE FoldTools(_, _)
\* the loop of merge_new_tools over new_tools, on the copy `result`
FoldTools(d, ts) ==
    IF ts = <<>> THEN d
    ELSE LET tool == Head(ts)
             key == Key(tool)
         IN  FoldTools(IF HasKey(d, key)
                       THEN Put(d, key, merge_tools(Get(d, key), tool))
                       ELSE Put(d, key, tool),
                       Tail(ts))

\* a fold that starts from an empty dict instead of the copy
merge_new_tools_from_empty(existing_dict, ts) == Values(FoldTools(<<>>, ts))

\* a fold that never looks the key up: every incoming record becomes an entry
merge_new_tools_append(existing_dict, ts) == Values(existing_dict) \o ts

merge_new_tools(existing_dict, ts) == Values(FoldTools(existing_dict, ts))

(***************************************************************************)
(* The checkpoint file                                                     *)
(***************************************************************************)
\* Tool.to_dict(): a dict with the record's fields; lists are JSON arrays
to_dict(t) ==
    [name |-> t.name, description |-> t.description, category |-> t.category,
     importance |-> t.importance, isOpenSource |-> t.isOpenSource, url |-> t.url,
     documentationUrl |-> t.documentationUrl, githubUrl |-> t.githubUrl,
     stars |-> t.stars, language |-> t.language, topics |-> t.topics, tags |-> t.tags]

\* a constructor call that leaves stars at its default
from_dict_default_stars(d) ==
    Tool(d.name, d.description, d.category, d.importance, d.isOpenSource, d.url,
         d.documentationUrl, d.githubUrl, DefaultStars, d.language, d.topics, d.tags)

\* Tool(**tool_dict)
from_dict(d) ==
    Tool(d.name, d.description, d.category, d.importance, d.isOpenSource, d.url,
         d.documentationUrl, d.githubUrl, d.stars, d.language, d.topics, d.tags)

\* what load_checkpoint() returns when it returns
load_checkpoint ==
    IF ckpt \in {Absent, Corrupt} THEN <<>>
    ELSE [i \in 1..Len(ckpt.data) |-> from_dict(ckpt.data[i])]

\* the stages of main in their order, with the number of arguments the
\* function requires and the number main passes
StageNames == <<"cncf_landscape", "github_topics", "package_registries",
                "additional_registries", "awesome_lists", "cloud_marketplaces">>
RequiredArgs == <<0, 1, 0, 0, 0, 0>>
PassedArgs == <<0, 0, 0, 0, 0, 0>>
NumStages == Len(StageNames)

\* the call raises TypeError: a required positional argument is missing
CallRaises(i) == PassedArgs[i] < RequiredArgs[i]

\* the stage's call is inside a try/except of its own in main
GuardedByTry(i) == StageNames[i] = "cloud_marketplaces"

\* where main goes once the stage's save_checkpoint has returned
AfterSave ==
    /\ pc' = IF stage < NumStages THEN "scrape" ELSE "finalize"
    /\ stage' = IF stage < NumStages THEN stage + 1 ELSE stage
    /\ base' = Range(tools)

Running == pc \in {"scrape", "save_rename", "save_open", "save_dump"}

(***************************************************************************)
(* Actions of main                                                         *)
(***************************************************************************)
\* a process starts main(): load_checkpoint() and the dict comprehension
StartRun ==
    /\ pc \in {"idle", "killed", "raised"}
    /\ runs < MaxRuns
    /\ runs' = runs + 1
    /\ \/ /\ ckpt # Corrupt
          /\ UNCHANGED <<ckpt, backups, made>>
       \/ /\ ckpt = Corrupt           \* json.load raised: the file is moved aside
          /\ backups' = [backups EXCEPT ![now] = ckpt]
          /\ made' = made \cup {[t |-> now, content |-> ckpt]}
          /\ ckpt' = Absent
    /\ existing_tools' = DictOfTools(load_checkpoint)
    /\ base' = Range(load_checkpoint)
    /\ tools' = <<>>
    /\ new_tools' = <<>>
    /\ stage' = 1
    /\ failedStage' = 0
    /\ trail' = <<>>
    /\ pc' = "scrape"
    /\ UNCHANGED <<now, lastSaved>>
    /\ UNCHANGED <<lookupVars, mergeVars, finalVars, importanceVars, sourceVars, concurrentVars, queryVars>>

\* a process starts main() and load_checkpoint() raises: json.load has
\* raised and, in the handler, os.rename raises; main's handler re-raises
StartRunRaises ==
    /\ pc \in {"idle", "killed", "raised"}
    /\ runs < MaxRuns
    /\ runs' = runs + 1
    /\ ckpt = Corrupt
    /\ existing_tools' = <<>>
    /\ tools' = <<>>
    /\ new_tools' = <<>>
    /\ stage' = 1
    /\ failedStage' = 0
    /\ trail' = <<>>
    /\ pc' = "raised"
    /\ UNCHANGED <<ckpt, backups, now, base, made, lastSaved>>
    /\ UNCHANGED <<lookupVars, mergeVars, finalVars, importanceVars, sourceVars, concurrentVars, queryVars>>

\* the stage's function returns a list; main folds it and rebuilds its dict
StageReturns ==
    /\ pc = "scrape"
    /\ ~CallRaises(stage)
    /\ \E out \in StageOutputs :
          /\ new_tools' = out
          /\ tools' = merge_new_tools(existing_tools, out)
    /\ existing_tools' = DictOfTools(tools')
    /\ trail' = trail \o << <<"call", stage>>, <<"fold", stage>> >>
    /\ pc' = "save_rename"
    /\ UNCHANGED <<stage, ckpt, backups, now, runs, base, failedStage, made, lastSaved>>
    /\ UNCHANGED <<lookupVars, mergeVars, finalVars, importanceVars, sourceVars, concurrentVars, queryVars>>

\* the stage's call raises: caught by the stage's own try, or by main's
\* outer handler, which re-raises
StageRaises ==
    /\ pc = "scrape"
    /\ CallRaises(stage)
    /\ trail' = Append(trail, <<"call", stage>>)
    /\ IF GuardedByTry(stage)
       THEN /\ pc' = "finalize"
            /\ UNCHANGED <<existing_tools, tools, new_tools, failedStage>>
       ELSE /\ pc' = "raised"
            /\ failedStage' = stage
            /\ existing_tools' = <<>>
            /\ tools' = <<>>
            /\ new_tools' = <<>>
    /\ UNCHANGED <<stage, ckpt, backups, now, runs, base, made, lastSaved>>
    /\ UNCHANGED <<lookupVars, mergeVars, finalVars, importanceVars, sourceVars, concurrentVars, queryVars>>

\* a save that makes no backup: the existing file is left for open() to truncate
SaveRename_no_backup ==
    /\ pc = "save_rename"
    /\ pc' = "save_open"
    /\ new_tools' = <<>>
    /\ trail' = Append(trail, <<"save", stage>>)
    /\ UNCHANGED <<stage, existing_tools, tools, now, runs, base, failedStage, lastSaved,
                   ckpt, backups, made>>
    /\ UNCHANGED <<lookupVars, mergeVars, finalVars, importanceVars, sourceVars, concurrentVars, queryVars>>

\* save_checkpoint: an existing checkpoint is renamed to the backup of this second
SaveRename ==
    /\ pc = "save_rename"
    /\ IF ckpt # Absent
       THEN /\ backups' = [backups EXCEPT ![now] = ckpt]
            /\ made' = made \cup {[t |-> now, content |-> ckpt]}
            /\ ckpt' = Absent
       ELSE UNCHANGED <<ckpt, backups, made>>
    /\ pc' = "save_open"
    /\ new_tools' = <<>>
    /\ trail' = Append(trail, <<"save", stage>>)
    /\ UNCHANGED <<stage, existing_tools, tools, now, runs, base, failedStage, lastSaved>>
    /\ UNCHANGED <<lookupVars, mergeVars, finalVars, importanceVars, sourceVars, concurrentVars, queryVars>>

\* save_checkpoint: open(CHECKPOINT_FILE, 'w') creates the file, empty
SaveOpen ==
    /\ pc = "save_open"
    /\ ckpt' = Corrupt
    /\ pc' = "save_dump"
    /\ UNCHANGED <<stage, existing_tools, tools, new_tools, backups, now, runs, base,
                   failedStage, trail, made, lastSaved>>
    /\ UNCHANGED <<lookupVars, mergeVars, finalVars, importanceVars, sourceVars, concurrentVars, queryVars>>

\* save_checkpoint: json.dump completes and the file is closed
SaveDump ==
    /\ pc = "save_dump"
    /\ ckpt' = File([i \in 1..Len(tools) |-> to_dict(tools[i])])
    /\ lastSaved' = tools
    /\ AfterSave
    /\ UNCHANGED <<existing_tools, tools, new_tools, backups, now, runs,
                   failedStage, trail, made>>
    /\ UNCHANGED <<lookupVars, mergeVars, finalVars, importanceVars, sourceVars, concurrentVars, queryVars>>

\* a save_checkpoint without its handler: the exception reaches main's
\* outer handler, which re-raises
SaveFails_raises ==
    /\ \/ pc \in {"save_open", "save_dump"}
       \/ pc = "save_rename" /\ ckpt # Absent
    /\ pc' = "raised"
    /\ failedStage' = stage
    /\ existing_tools' = <<>>
    /\ tools' = <<>>
    /\ UNCHANGED <<stage, new_tools, ckpt, backups, now, runs, base, trail, made, lastSaved>>
    /\ UNCHANGED <<lookupVars, mergeVars, finalVars, importanceVars, sourceVars, concurrentVars, queryVars>>

\* save_checkpoint: the rename, the open or the write raises; the handler
\* prints and save_checkpoint returns
SaveFails ==
    /\ \/ pc \in {"save_open", "save_dump"}
       \/ pc = "save_rename" /\ ckpt # Absent
    /\ AfterSave
    /\ UNCHANGED <<existing_tools, tools, new_tools, ckpt, backups, now, runs,
                   failedStage, trail, made, lastSaved>>
    /\ UNCHANGED <<lookupVars, mergeVars, finalVars, importanceVars, sourceVars, concurrentVars, queryVars>>

\* the process is terminated from outside
Kill ==
    /\ Running
    /\ pc' = "killed"
    /\ existing_tools' = <<>>
    /\ tools' = <<>>
    /\ new_tools' = <<>>
    /\ trail' = <<>>
    /\ UNCHANGED <<stage, ckpt, backups, now, runs, base, failedStage, made, lastSaved>>
    /\ UNCHANGED <<lookupVars, mergeVars, finalVars, importanceVars, sourceVars, concurrentVars, queryVars>>

\* a second passes
Tick ==
    /\ now < MaxTime
    /\ now' = now + 1
    /\ UNCHANGED <<pc, stage, existing_tools, tools, new_tools, ckpt, backups, runs, base,
                   failedStage, trail, made, lastSaved>>
    /\ UNCHANGED <<lookupVars, mergeVars, finalVars, importanceVars, sourceVars, concurrentVars, queryVars>>

(***************************************************************************)
(* The lookup's values                                                     *)
(***************************************************************************)
\* the safe default extract_github_info returns
DefaultInfo == [stars |-> 0, description |-> "", is_open_source |-> TRUE]

NoResult == [none |-> TRUE]

CacheAbsent == [st |-> "absent", data |-> {}]
CacheCorrupt == [st |-> "corrupt", data |-> {}]
CacheFile(data) == [st |-> "ok", data |-> data]

\* the lookup part at rest, as the orchestrator's specification holds it
LookupAtRest ==
    /\ github_cache = {}
    /\ cache_file = CacheAbsent
    /\ memo = <<>>
    /\ lpc = "idle"
    /\ lurl = <<>>
    /\ retry_count = 0
    /\ outcomes = <<>>
    /\ slept = <<>>
    /\ result = NoResult
    /\ cause = "none"
    /\ fetched = {}
    /\ defaulted = {}
    /\ lookups = 0
    /\ base_delay = 1
    /\ since = {}
    /\ lastGap = -1
    /\ bulks = 0
    /\ persisted = {}

\* the orchestrator before the first process starts, no checkpoint on disk
MainAtRest ==
    /\ pc = "idle"
    /\ stage = 1
    /\ existing_tools = <<>>
    /\ tools = <<>>
    /\ new_tools = <<>>
    /\ ckpt = Absent
    /\ backups = [t \in 0..MaxTime |-> Absent]
    /\ now = 0
    /\ runs = 0
    /\ base = {}
    /\ failedStage = 0
    /\ trail = <<>>
    /\ made = {}
    /\ lastSaved = <<>>

\* the checkpoint file a first process may find: none, or the one an
\* earlier process saved
InitialCheckpoints == {Absent, File(<<to_dict(KongAwesome)>>)}

\* the orchestrator before the first process starts
MainAtStart ==
    /\ pc = "idle"
    /\ stage = 1
    /\ existing_tools = <<>>
    /\ tools = <<>>
    /\ new_tools = <<>>
    /\ ckpt \in InitialCheckpoints
    /\ backups = [t \in 0..MaxTime |-> Absent]
    /\ now = 0
    /\ runs = 0
    /\ base = {}
    /\ failedStage = 0
    /\ trail = <<>>
    /\ made = {}
    /\ lastSaved = load_checkpoint

\* no record yet
NoTool == Tool("", "", "", "", FALSE, "", "", "", 0, "", <<>>, <<>>)

MergeAtRest ==
    /\ mpc = "rest"
    /\ merge_existing = NoTool
    /\ merge_new = NoTool
    /\ merged = NoTool
    /\ merged_rev = NoTool
    /\ merged_again = NoTool

\* finalization not reached: nothing computed, no output file
FinalAtRest ==
    /\ tools_data = <<>>
    /\ categories = <<>>
    /\ category_stats = Absent
    /\ tools_json = Absent

\* determine_importance not called
ImportanceAtRest ==
    /\ ipc = "rest"
    /\ iname = ""
    /\ istars = 0
    /\ imore = 0
    /\ ireturned = ""
    /\ ireturned_more = ""

Procs == {"p1", "p2"}

\* no process is running
ConcurrentAtRest ==
    /\ cpc = [p \in Procs |-> "off"]
    /\ caches = [p \in Procs |-> {}]
    /\ written = {}

\* run_github_query not called
QueryAtRest ==
    /\ qpc = "rest"
    /\ qquery = ""
    /\ attempt = 0
    /\ qwaits = <<>>
    /\ qoutcomes = <<>>
    /\ qresult = <<>>

\* extract_docker_tools not called
SourceAtRest ==
    /\ spc = "rest"
    /\ scategory = ""
    /\ sresults = <<>>
    /\ sexisting = <<>>
    /\ sextracted = <<>>
    /\ sfolded = <<>>

Init ==
    /\ MainAtRest
    /\ LookupAtRest
    /\ ConcurrentAtRest
    /\ QueryAtRest
    /\ MergeAtRest
    /\ FinalAtRest
    /\ ImportanceAtRest
    /\ SourceAtRest

InitMain ==
    /\ MainAtStart
    /\ LookupAtRest
    /\ ConcurrentAtRest
    /\ QueryAtRest
    /\ MergeAtRest
    /\ FinalAtRest
    /\ ImportanceAtRest
    /\ SourceAtRest

\* The second stage's call always raises (CallRaises(2)) and is not guarded,
\* so no process gets past it: the position "finalize" is reached by no
\* behaviour and the finalization of main (Finalize, WriteStats, WriteTools,
\* WriteRaises below) is no step of Next.
Next ==
    \/ StartRun
    \/ StartRunRaises
    \/ StageReturns
    \/ StageRaises
    \/ SaveRename
    \/ SaveOpen
    \/ SaveDump
    \/ SaveFails
    \/ Kill
    \/ Tick

Spec == InitMain /\ [][Next]_vars

(***************************************************************************)
(* extract_github_info: urls, the provider, the caches                     *)
(***************************************************************************)
MAX_RETRIES == 3
SLEEP_CAP == 300
LRU_MAXSIZE == 1000

\* A url is held as the list url.strip('/').split('/') yields; the empty
\* string is the empty list.
UrlEmpty == <<>>
UrlGitlab == <<"https:", "", "gitlab.com", "Kong", "kong">>
UrlShort == <<"github.com", "Kong", "kong">>
UrlKong == <<"https:", "", "github.com", "Kong", "kong">>
UrlIstio == <<"https:", "", "github.com", "istio", "istio">>
Urls == {UrlEmpty, UrlGitlab, UrlShort, UrlKong, UrlIstio}

\* a test that takes any non-empty url
HasGithub_any_host(url) == url # <<>>

\* 'github.com' in url
HasGithub(url) == \E i \in 1..Len(url) : url[i] \in {"github.com", "www.github.com"}

\* the star counts the provider may report, at any call
ProviderStars == {0, 38000}

\* GITHUB_RATE_LIMIT_SLEEP = random.uniform(1, 3), in whole seconds
BaseDelays == 1..3

\* info built from a returncode 0 response: repo is parts[-1]
InfoOf(url, stars) ==
    [stars |-> stars, description |-> "d", is_open_source |-> TRUE, name |-> url[Len(url)]]

Raised == [raised |-> TRUE]

\* github_cache, a dict from url to info, as a set of entries
InCache(c, u) == \E e \in c : e.url = u
CacheGet(c, u) == (CHOOSE e \in c : e.url = u).info
CachePut(c, u, i) == {e \in c : e.url # u} \cup {[url |-> u, info |-> i]}

\* the module-level load of GITHUB_CACHE_FILE
load_github_cache == IF cache_file.st = "ok" THEN cache_file.data ELSE {}

\* a save that leaves the file as it is
save_github_cache_skipped(c) == cache_file

\* a save that keeps the entries of the file for the urls its dict lacks
save_github_cache_merging(c) ==
    CacheFile(c \cup {e \in load_github_cache : ~InCache(c, e.url)})

\* save_github_cache(): the file holds what json.dump(github_cache, f) wrote
save_github_cache(c) == CacheFile(c)

\* lru_cache(maxsize): the least recently used entry is first
MemoHas(m, k) == \E i \in 1..Len(m) : m[i].key = k
MemoGet(m, k) == m[CHOOSE i \in 1..Len(m) : m[i].key = k].val
MemoTouch(m, k) ==
    LET i == CHOOSE j \in 1..Len(m) : m[j].key = k
    IN  SubSeq(m, 1, i - 1) \o SubSeq(m, i + 1, Len(m)) \o <<m[i]>>
\* An item of the memo stands for n entries: 1, or the entries a bulk of
\* lookups of other urls has left, which sit next to each other.
RECURSIVE MemoLen(_)
MemoLen(m) == IF m = <<>> THEN 0 ELSE Head(m).n + MemoLen(Tail(m))

RECURSIVE EvictTo(_, _)
\* the least recently used entries go until max entries are left
EvictTo(m, max) ==
    IF MemoLen(m) <= max THEN m
    ELSE IF Head(m).n > MemoLen(m) - max
    THEN <<[Head(m) EXCEPT !.n = @ - (MemoLen(m) - max)]>> \o Tail(m)
    ELSE EvictTo(Tail(m), max)

\* a memo that holds one entry less than maxsize
Evict_one_short(m) == CHOOSE r \in {EvictTo(x, LRU_MAXSIZE - 1) : x \in {m}} : TRUE

\* maxsize=1000 (m is evaluated once, as x)
Evict(m) == CHOOSE r \in {EvictTo(x, LRU_MAXSIZE) : x \in {m}} : TRUE

MemoPut(m, k, v) == Evict(Append(m, [key |-> k, val |-> v, n |-> 1]))

RECURSIVE MemoReturn(_, _, _, _)
\* the value v returned by the call with retry_count rc is stored by the
\* wrapper of that call and of every call above it, innermost first; the
\* top call was made with the url alone
MemoReturn(m, u, rc, v) ==
    IF rc = 0 THEN MemoPut(m, <<u>>, v)
    ELSE MemoReturn(MemoPut(m, <<u, rc>>, v), u, rc - 1, v)

\* the delay slept before the provider call of retry rc, with 2*rc for 2**rc
sleep_time_linear(rc) == Min(SLEEP_CAP, base_delay * (2 * rc))

\* min(300, GITHUB_RATE_LIMIT_SLEEP * (2 ** retry_count))
sleep_time(rc) == Min(SLEEP_CAP, base_delay * Pow2(rc))

\* a retry guard that lets one call too many through
CanRetry_off_by_one(rc) == rc <= MAX_RETRIES

\* retry_count < MAX_RETRIES
CanRetry(rc) == rc < MAX_RETRIES

\* what a provider call can end in: returncode 0 with usable JSON; a
\* non-zero exit with 'rate limit exceeded' on stderr; another non-zero
\* exit; subprocess.TimeoutExpired or json.JSONDecodeError, which one except
\* clause handles; any other exception raised inside the try (OSError of
\* the subprocess, TypeError or AttributeError on unexpected JSON)
RetryOutcomes == {"rate_limit", "TimeoutOrJSONDecodeError"}
Outcomes == {"ok", "error", "OtherException"} \cup RetryOutcomes

\* handlers that catch only the two named exceptions
Handler_inner_only(exc) ==
    IF exc = "TimeoutOrJSONDecodeError" THEN "inner" ELSE "none"

\* a policy without the retry of the two named exceptions
Handler_outer_only(exc) == "outer"

\* the handler an exception raised inside the try blocks ends in
Handler(exc) ==
    IF exc = "TimeoutOrJSONDecodeError" THEN "inner" ELSE "outer"

\* the outcomes whose handling is the retry: the rate limit of a non-zero
\* exit, and the exceptions the inner except clause catches
Retries(o) == o = "rate_limit" \/ (o \in RetryOutcomes /\ Handler(o) = "inner")

\* a cache that is never written
CacheAfter_never(c, u, outcome, info) == c

\* a cache that also gets an entry when the provider reports another error
CacheAfter_caching_error(c, u, outcome, info) ==
    IF outcome \in {"ok", "error"} THEN CachePut(c, u, info) ELSE c

\* a cache that also records the default of a call that got no result
CacheAfter_caching_default(c, u, outcome, info) ==
    IF outcome = "ok" THEN CachePut(c, u, info) ELSE CachePut(c, u, DefaultInfo)

\* github_cache after a provider call: written in the returncode 0 branch only
CacheAfter(c, u, outcome, info) ==
    IF outcome = "ok" THEN CachePut(c, u, info) ELSE c

\* the sleep before a retry's provider call
SleepFirst == IF retry_count > 0 THEN Append(slept, sleep_time(retry_count)) ELSE slept

\* `since` once n more results are memoized
SinceLater(n) == {[url |-> e.url, n |-> Min(LRU_MAXSIZE, e.n + n)] : e \in since}

\* `since` once the lookup of u has returned and its wrappers have stored n results
SinceAfter(u, n) ==
    {e \in SinceLater(n) : e.url # u} \cup {[url |-> u, n |-> 0]}

\* the urls of a bulk: distinct, without the supported host, looked up nowhere else
OtherUrls == <<"other urls">>

\* the memo after lookups of the n urls of bulk b, each stored with the default
MemoPutOthers(m, b, n) ==
    Evict(Append(m, [key |-> <<OtherUrls, b>>, val |-> DefaultInfo, n |-> n]))

\* `n` of u in `since`, -1 if u was not looked up in this process
GapOf(u) == IF \E e \in since : e.url = u THEN (CHOOSE e \in since : e.url = u).n ELSE -1

\* the lookup of u returns v to its caller, the wrappers having stored n results
Return(u, v, why, m, n) ==
    /\ since' = SinceAfter(u, n)
    /\ result' = v
    /\ cause' = why
    /\ memo' = m
    /\ lpc' = "idle"
    /\ persisted' = IF why = "fetched" THEN persisted \cup {[url |-> u, info |-> v]}
                    ELSE persisted
    /\ defaulted' = IF why \in {"exhausted", "provider_error", "exception"}
                    THEN defaulted \cup {u} ELSE defaulted

(***************************************************************************)
(* Actions of the lookup                                                   *)
(***************************************************************************)
\* the process has ended and a new one starts: the module is loaded, the
\* memo is empty
StartProcess ==
    /\ lpc = "idle"
    /\ memo # <<>>
    /\ github_cache' = load_github_cache
    /\ memo' = <<>>
    /\ \E d \in BaseDelays : base_delay' = d
    /\ lurl' = <<>>
    /\ outcomes' = <<>>
    /\ slept' = <<>>
    /\ result' = NoResult
    /\ cause' = "none"
    /\ since' = {}
    /\ lastGap' = -1
    /\ bulks' = 0
    /\ UNCHANGED <<cache_file, lpc, retry_count, fetched, defaulted, lookups, persisted>>
    /\ UNCHANGED <<mainVars, mergeVars, finalVars, importanceVars, sourceVars, concurrentVars, queryVars>>

\* extract_github_info(url) answered by the lru_cache wrapper
LookupMemoHit ==
    /\ lpc = "idle"
    /\ lookups < MaxLookups
    /\ \E u \in Urls :
          /\ MemoHas(memo, <<u>>)
          /\ lurl' = u
          /\ lastGap' = GapOf(u)
          /\ Return(u, MemoGet(memo, <<u>>), "memo", MemoTouch(memo, <<u>>), 0)
    /\ lookups' = lookups + 1
    /\ outcomes' = <<>>
    /\ slept' = <<>>
    /\ retry_count' = 0
    /\ UNCHANGED <<github_cache, cache_file, fetched, base_delay, bulks>>
    /\ UNCHANGED <<mainVars, mergeVars, finalVars, importanceVars, sourceVars, concurrentVars, queryVars>>

\* extract_github_info(url) returning before any provider call: the url is
\* empty or without the host, is a key of github_cache, or has too few parts
LookupNoCall ==
    /\ lpc = "idle"
    /\ lookups < MaxLookups
    /\ \E u \in Urls :
          /\ ~MemoHas(memo, <<u>>)
          /\ lurl' = u
          /\ lastGap' = GapOf(u)
          /\ IF u = UrlEmpty \/ ~HasGithub(u)
             THEN Return(u, DefaultInfo, "unsupported", MemoPut(memo, <<u>>, DefaultInfo), 1)
             ELSE IF InCache(github_cache, u)
             THEN Return(u, CacheGet(github_cache, u), "cache",
                         MemoPut(memo, <<u>>, CacheGet(github_cache, u)), 1)
             ELSE /\ Len(u) < 5
                  /\ Return(u, DefaultInfo, "short_url", MemoPut(memo, <<u>>, DefaultInfo), 1)
    /\ lookups' = lookups + 1
    /\ outcomes' = <<>>
    /\ slept' = <<>>
    /\ retry_count' = 0
    /\ UNCHANGED <<github_cache, cache_file, fetched, base_delay, bulks>>
    /\ UNCHANGED <<mainVars, mergeVars, finalVars, importanceVars, sourceVars, concurrentVars, queryVars>>

\* extract_github_info(url) reaching the provider call with retry_count 0
LookupBegin ==
    /\ lpc = "idle"
    /\ lookups < MaxLookups
    /\ \E u \in Urls :
          /\ ~MemoHas(memo, <<u>>)
          /\ u # UrlEmpty /\ HasGithub(u)
          /\ ~InCache(github_cache, u)
          /\ Len(u) >= 5
          /\ lurl' = u
          /\ lastGap' = GapOf(u)
    /\ lookups' = lookups + 1
    /\ outcomes' = <<>>
    /\ slept' = <<>>
    /\ retry_count' = 0
    /\ lpc' = "attempt"
    /\ UNCHANGED <<github_cache, cache_file, memo, result, cause, fetched, defaulted,
                   base_delay, since, bulks, persisted>>
    /\ UNCHANGED <<mainVars, mergeVars, finalVars, importanceVars, sourceVars, concurrentVars, queryVars>>

\* the provider answers with returncode 0 and usable JSON; the entry is put
\* in github_cache and save_github_cache() writes the file, or raises
\* before or while writing it
AttemptOk ==
    /\ lpc = "attempt"
    /\ \E stars \in ProviderStars, save \in {"saved", "open_failed", "write_failed"} :
          LET info == InfoOf(lurl, stars) IN
          /\ github_cache' = CacheAfter(github_cache, lurl, "ok", info)
          /\ fetched' = fetched \cup {[url |-> lurl, info |-> info]}
          /\ cache_file' = CASE save = "saved" -> save_github_cache(github_cache')
                             [] save = "open_failed" -> cache_file
                             [] OTHER -> CacheCorrupt
          /\ IF save = "saved"
             THEN Return(lurl, info, "fetched", MemoReturn(memo, lurl, retry_count, info),
                         retry_count + 1)
             ELSE IF Handler("OtherException") = "outer"
             THEN Return(lurl, DefaultInfo, "save_failed",
                         MemoReturn(memo, lurl, retry_count, DefaultInfo), retry_count + 1)
             ELSE Return(lurl, Raised, "raised", memo, 0)
    /\ slept' = SleepFirst
    /\ outcomes' = Append(outcomes, "ok")
    /\ UNCHANGED <<lurl, retry_count, lookups, base_delay, lastGap, bulks>>
    /\ UNCHANGED <<mainVars, mergeVars, finalVars, importanceVars, sourceVars, concurrentVars, queryVars>>

\* a rate limit, a timeout or malformed JSON while retries are left: the
\* function calls itself with retry_count + 1
AttemptRetry ==
    /\ lpc = "attempt"
    /\ CanRetry(retry_count)
    /\ \E o \in RetryOutcomes :
          /\ Retries(o)
          /\ outcomes' = Append(outcomes, o)
          /\ github_cache' = CacheAfter(github_cache, lurl, o, DefaultInfo)
          /\ IF MemoHas(memo, <<lurl, retry_count + 1>>)
             THEN /\ Return(lurl, MemoGet(memo, <<lurl, retry_count + 1>>), "memo",
                            MemoReturn(MemoTouch(memo, <<lurl, retry_count + 1>>), lurl,
                                       retry_count, MemoGet(memo, <<lurl, retry_count + 1>>)),
                            retry_count + 1)
                  /\ UNCHANGED retry_count
             ELSE /\ retry_count' = retry_count + 1
                  /\ UNCHANGED <<memo, result, cause, lpc, defaulted, since, persisted>>
    /\ slept' = SleepFirst
    /\ UNCHANGED <<cache_file, lurl, fetched, lookups, base_delay, lastGap, bulks>>
    /\ UNCHANGED <<mainVars, mergeVars, finalVars, importanceVars, sourceVars, concurrentVars, queryVars>>

\* the call ends without a result: a rate limit, a timeout or malformed JSON
\* with no retry left, any other non-zero exit, or any other exception
AttemptGiveUp ==
    /\ lpc = "attempt"
    /\ \E o \in Outcomes \ {"ok"} :
          /\ Retries(o) => ~CanRetry(retry_count)
          /\ outcomes' = Append(outcomes, o)
          /\ github_cache' = CacheAfter(github_cache, lurl, o, DefaultInfo)
          /\ IF o \in {"rate_limit", "error"} \/ Handler(o) # "none"
             THEN Return(lurl, DefaultInfo,
                         CASE Retries(o) -> "exhausted"
                           [] o = "error" -> "provider_error"
                           [] OTHER -> "exception",
                         MemoReturn(memo, lurl, retry_count, DefaultInfo), retry_count + 1)
             ELSE Return(lurl, Raised, "raised", memo, 0)
    /\ slept' = SleepFirst
    /\ UNCHANGED <<cache_file, lurl, retry_count, fetched, lookups, base_delay, lastGap,
                   bulks>>
    /\ UNCHANGED <<mainVars, mergeVars, finalVars, importanceVars, sourceVars, concurrentVars, queryVars>>

\* LRU_MAXSIZE - 1 or LRU_MAXSIZE lookups, one after the other, between two
\* lookups of urls of Urls, of urls that are looked up nowhere else and lack
\* the host: each returns the default before the try and its result is
\* memoized
LookupOtherUrls ==
    /\ lpc = "idle"
    /\ bulks < MaxBulks
    /\ lookups < MaxLookups
    /\ since # {}
    /\ \E n \in {LRU_MAXSIZE - 1, LRU_MAXSIZE} :
          /\ memo' = MemoPutOthers(memo, bulks + 1, n)
          /\ since' = SinceLater(n)
    /\ bulks' = bulks + 1
    /\ UNCHANGED <<github_cache, cache_file, lpc, lurl, retry_count, outcomes, slept, result,
                   cause, fetched, defaulted, lookups, base_delay, lastGap, persisted>>
    /\ UNCHANGED <<mainVars, mergeVars, finalVars, importanceVars, sourceVars, concurrentVars, queryVars>>

\* the lookups of the urls of Urls
LookupNextOfUrls ==
    \/ StartProcess
    \/ LookupMemoHit
    \/ LookupNoCall
    \/ LookupBegin
    \/ AttemptOk
    \/ AttemptRetry
    \/ AttemptGiveUp

LookupNext ==
    \/ LookupNextOfUrls
    \/ LookupOtherUrls

SpecLookup == Init /\ [][LookupNext]_vars

\* the lookups of one process: the module is loaded once
LookupNextInProcess ==
    \/ LookupMemoHit
    \/ LookupNoCall
    \/ LookupBegin
    \/ AttemptOk
    \/ AttemptRetry
    \/ AttemptGiveUp

\* the process keeps running: a lookup under way takes its next step. The
\* bulk lookups, which call no provider, are left out.
SpecLookupFair ==
    Init /\ [][LookupNextInProcess]_vars /\ WF_vars(AttemptOk \/ AttemptRetry \/ AttemptGiveUp)

(***************************************************************************)
(* merge_tools on pairs of records                                         *)
(***************************************************************************)
\* The records merge_tools is applied to. A scalar field is empty or not, and
\* the non-empty values of `existing` differ from those of `new`, but for a
\* url and a githubUrl both may hold; tags are None, empty, or a list, with
\* an element twice and with elements the other record has too.
ExistingInputs ==
    {Tool("Kong", d, c[1], c[2], o, u, doc, g, 38000, "Lua", <<"api-gateway">>, t) :
        d \in {"", "Cloud-native API gateway"},
        c \in {<<"", "">>, <<"API Gateway", "Essential">>},
        o \in BOOLEAN,
        u \in {"", KongHome},
        doc \in {"", "https://docs.konghq.com"},
        g \in {"", KongGithub},
        t \in {None, <<>>, <<"gateway", "proxy", "gateway">>}}

IncomingInputs ==
    {Tool(n, d, c[1], c[2], o, u, doc, g, 120, "Go", <<"proxy">>, t) :
        n \in {"kong", "Istio"},
        d \in {"", "api proxy"},
        c \in {<<"", "">>, <<"API Management", "Optional">>},
        o \in BOOLEAN,
        u \in {"", KongHome, "https://kong.example"},
        doc \in {"", "https://docs.kong.example"},
        g \in {"", KongGithub, "https://github.com/kong/kong-fork"},
        t \in {None, <<"proxy", "lua">>}}

InitMerge ==
    /\ MainAtRest
    /\ LookupAtRest
    /\ ConcurrentAtRest
    /\ QueryAtRest
    /\ FinalAtRest
    /\ ImportanceAtRest
    /\ SourceAtRest
    /\ mpc = "input"
    /\ merge_existing \in ExistingInputs
    /\ merge_new \in IncomingInputs
    /\ merged = NoTool
    /\ merged_rev = NoTool
    /\ merged_again = NoTool

\* merge_tools is called on the pair, and on the pair the other way round
Merge ==
    /\ mpc = "input"
    /\ merged' = merge_tools(merge_existing, merge_new)
    /\ merged_rev' = merge_tools(merge_new, merge_existing)
    /\ mpc' = "merged"
    /\ UNCHANGED <<merge_existing, merge_new, merged_again>>
    /\ UNCHANGED <<mainVars, lookupVars, finalVars, importanceVars, sourceVars, concurrentVars, queryVars>>

\* merge_tools is called on `existing` and the record the first call returned
MergeAgain ==
    /\ mpc = "merged"
    /\ merged_again' = merge_tools(merge_existing, merged)
    /\ mpc' = "again"
    /\ UNCHANGED <<merge_existing, merge_new, merged, merged_rev>>
    /\ UNCHANGED <<mainVars, lookupVars, finalVars, importanceVars, sourceVars, concurrentVars, queryVars>>

MergeNext == Merge \/ MergeAgain

SpecMerge == InitMerge /\ [][MergeNext]_vars

(***************************************************************************)
(* main's finalization: the block after the last stage. No behaviour of    *)
(* Spec reaches it; SpecFinalize starts main at that block, as it would be *)
(* were the second stage's call to return.                                 *)
(***************************************************************************)
MaxFinalLen == 3

\* a record of another entity and another category
IstioMesh ==
    Tool("Istio", "service mesh", "Service Mesh", "Essential", TRUE, "https://istio.io",
         "", "https://github.com/istio/istio", 35000, "Go", <<>>, <<"mesh">>)

FinalRecords == Candidates \cup {IstioMesh}

\* the lists main can hold after its last fold: no two entries with one key
WorkingSets ==
    {ts \in UNION {[1..n -> FinalRecords] : n \in 0..MaxFinalLen} :
        \A i, j \in 1..Len(ts) : Key(ts[i]) = Key(ts[j]) => i = j}

\* a dict.get that finds no key
GetOr_default(d, k, x) == x

\* d.get(k, x)
GetOr(d, k, x) == IF HasKey(d, k) THEN Get(d, k) ELSE x

RECURSIVE CountCategories(_, _)
\* for tool in tools: categories[tool.category] = categories.get(tool.category, 0) + 1
CountCategories(d, ts) ==
    IF ts = <<>> THEN d
    ELSE LET category == Head(ts).category
         IN  CountCategories(Put(d, category, GetOr(d, category, 0) + 1), Tail(ts))

\* main is past its last stage with a working set
InitFinalize ==
    /\ pc = "finalize"
    /\ stage = NumStages + 1
    /\ tools \in WorkingSets
    /\ existing_tools = DictOfTools(tools)
    /\ new_tools = <<>>
    /\ ckpt = File([i \in 1..Len(tools) |-> to_dict(tools[i])])
    /\ backups = [t \in 0..MaxTime |-> Absent]
    /\ now = 0
    /\ runs = 1
    /\ base = Range(tools)
    /\ failedStage = 0
    /\ trail = <<>>
    /\ made = {}
    /\ lastSaved = tools
    /\ LookupAtRest
    /\ ConcurrentAtRest
    /\ QueryAtRest
    /\ MergeAtRest
    /\ FinalAtRest
    /\ ImportanceAtRest
    /\ SourceAtRest

\* tools_data and the loop that counts the categories
Finalize ==
    /\ pc = "finalize"
    /\ tools_data' = [i \in 1..Len(tools) |-> to_dict(tools[i])]
    /\ categories' = CountCategories(<<>>, tools)
    /\ pc' = "write_stats"
    /\ UNCHANGED <<category_stats, tools_json>>
    /\ UNCHANGED <<stage, existing_tools, tools, new_tools, ckpt, backups, now, runs, base,
                   failedStage, trail, made, lastSaved>>
    /\ UNCHANGED <<lookupVars, mergeVars, importanceVars, sourceVars, concurrentVars, queryVars>>

\* category_stats.json is opened for writing and json.dump completes
WriteStats ==
    /\ pc = "write_stats"
    /\ category_stats' = File(categories)
    /\ pc' = "write_tools"
    /\ UNCHANGED <<tools_data, categories, tools_json>>
    /\ UNCHANGED <<stage, existing_tools, tools, new_tools, ckpt, backups, now, runs, base,
                   failedStage, trail, made, lastSaved>>
    /\ UNCHANGED <<lookupVars, mergeVars, importanceVars, sourceVars, concurrentVars, queryVars>>

\* tools.json is opened for writing and json.dump completes: main returns
WriteTools ==
    /\ pc = "write_tools"
    /\ tools_json' = File(tools_data)
    /\ pc' = "done"
    /\ UNCHANGED <<tools_data, categories, category_stats>>
    /\ UNCHANGED <<stage, existing_tools, tools, new_tools, ckpt, backups, now, runs, base,
                   failedStage, trail, made, lastSaved>>
    /\ UNCHANGED <<lookupVars, mergeVars, importanceVars, sourceVars, concurrentVars, queryVars>>

\* the open or the json.dump of an output file raises: the file is as it
\* was or cut short; main's handler prints and re-raises
WriteRaises ==
    /\ \/ /\ pc = "write_stats"
          /\ category_stats' \in {category_stats, Corrupt}
          /\ UNCHANGED tools_json
       \/ /\ pc = "write_tools"
          /\ tools_json' \in {tools_json, Corrupt}
          /\ UNCHANGED category_stats
    /\ pc' = "raised"
    /\ failedStage' = NumStages + 1
    /\ UNCHANGED <<tools_data, categories>>
    /\ UNCHANGED <<stage, existing_tools, tools, new_tools, ckpt, backups, now, runs, base,
                   trail, made, lastSaved>>
    /\ UNCHANGED <<lookupVars, mergeVars, importanceVars, sourceVars, concurrentVars, queryVars>>

NextFinalize == Finalize \/ WriteStats \/ WriteTools \/ WriteRaises

SpecFinalize == InitFinalize /\ [][NextFinalize]_vars

(***************************************************************************)
(* determine_importance (specification SpecImportance)                     *)
(***************************************************************************)
ESSENTIAL_STARS == 10000
RECOMMENDED_STARS == 5000

essential_tools == {"kubernetes", "docker", "jenkins", "terraform", "prometheus", "git"}

\* thresholds that include their bound
determine_importance_at_least(name, description, stars) ==
    IF lowercase(name) \in essential_tools \/ stars >= ESSENTIAL_STARS THEN "Essential"
    ELSE IF stars >= RECOMMENDED_STARS THEN "Recommended"
    ELSE "Optional"

\* the description is lowercased and not used
determine_importance(name, description, stars) ==
    IF lowercase(name) \in essential_tools \/ stars > ESSENTIAL_STARS THEN "Essential"
    ELSE IF stars > RECOMMENDED_STARS THEN "Recommended"
    ELSE "Optional"

\* the arguments of the calls
ImportanceNames ==
    {"Kubernetes", "kubernetes", "Docker", "GIT", "terraform", "Kong", "kong", "Istio", ""}
Descriptions == {"", "Cloud-native API gateway"}
StarValues == {0, 1, 4999, 5000, 5001, 9999, 10000, 10001, 38000}

InitImportance ==
    /\ MainAtRest
    /\ LookupAtRest
    /\ ConcurrentAtRest
    /\ QueryAtRest
    /\ MergeAtRest
    /\ FinalAtRest
    /\ SourceAtRest
    /\ ipc = "input"
    /\ iname \in ImportanceNames
    /\ istars \in StarValues
    /\ imore \in {n \in StarValues : n >= istars}
    /\ ireturned = ""
    /\ ireturned_more = ""

\* determine_importance is called with the name and each number of stars
DetermineImportance ==
    /\ ipc = "input"
    /\ \E description \in Descriptions :
          /\ ireturned' = determine_importance(iname, description, istars)
          /\ ireturned_more' = determine_importance(iname, description, imore)
    /\ ipc' = "returned"
    /\ UNCHANGED <<iname, istars, imore>>
    /\ UNCHANGED <<mainVars, lookupVars, mergeVars, finalVars, sourceVars, concurrentVars, queryVars>>

ImportanceNext == DetermineImportance

SpecImportance == InitImportance /\ [][ImportanceNext]_vars

(***************************************************************************)
(* Two processes with one cache file (specification SpecConcurrent): each  *)
(* loads the module, then looks urls up; nothing orders their steps        *)
(***************************************************************************)
ConcurrentUrls == {UrlKong, UrlIstio}

InitConcurrent ==
    /\ MainAtRest
    /\ LookupAtRest
    /\ MergeAtRest
    /\ FinalAtRest
    /\ ImportanceAtRest
    /\ SourceAtRest
    /\ ConcurrentAtRest
    /\ QueryAtRest

\* process p starts: the module-level code loads the cache file into its dict
RunLoads(p) ==
    /\ cpc[p] = "off"
    /\ cpc' = [cpc EXCEPT ![p] = "loaded"]
    /\ caches' = [caches EXCEPT ![p] = load_github_cache]
    /\ UNCHANGED <<cache_file, written>>

\* a lookup of process p gets returncode 0 from the provider: the entry is
\* put in its dict and save_github_cache() writes the file
RunFetches(p) ==
    /\ cpc[p] = "loaded"
    /\ \E u \in ConcurrentUrls, stars \in ProviderStars :
          /\ ~InCache(caches[p], u)
          /\ caches' = [caches EXCEPT ![p] = CacheAfter(caches[p], u, "ok", InfoOf(u, stars))]
    /\ cache_file' = save_github_cache(caches'[p])
    /\ written' = written \cup cache_file'.data
    /\ UNCHANGED cpc

ConcurrentNext ==
    /\ \E p \in Procs : RunLoads(p) \/ RunFetches(p)
    /\ UNCHANGED <<github_cache, memo, lpc, lurl, retry_count, outcomes, slept, result, cause,
                   fetched, defaulted, lookups, base_delay, since, lastGap, bulks, persisted>>
    /\ UNCHANGED <<mainVars, mergeVars, finalVars, importanceVars, sourceVars, queryVars>>

SpecConcurrent == InitConcurrent /\ [][ConcurrentNext]_vars

(***************************************************************************)
(* run_github_query (specification SpecQueryFair)                         *)
(***************************************************************************)
MaxItems == 2

max_retries == 3
retry_delay == 5

\* the queries of the callers and the repositories a response may list
Queries ==
    {"topic:api-gateway stars:>50", "topic:api-proxy stars:>50",
     "topic:service-mesh stars:>50", "topic:logging stars:>50"}
Repos == {"Kong/kong", "istio/istio"}
ItemLists == UNION {[1..n -> Repos] : n \in 0..MaxItems}

\* a loop that goes on after the last attempt's failure
MoreAttempts_one_more(n) == n < max_retries

\* attempt < max_retries - 1
MoreAttempts(n) == n < max_retries - 1

\* wait_time = retry_delay * (attempt + 1)
wait_time(n) == retry_delay * (n + 1)

InitQuery ==
    /\ MainAtRest
    /\ LookupAtRest
    /\ MergeAtRest
    /\ FinalAtRest
    /\ ImportanceAtRest
    /\ SourceAtRest
    /\ ConcurrentAtRest
    /\ qpc = "calling"
    /\ qquery \in Queries
    /\ attempt = 0
    /\ qwaits = <<>>
    /\ qoutcomes = <<>>
    /\ qresult = <<>>

\* the command exits with 0 and its output is JSON: data['items'], or [] when
\* the object has no 'items'
QueryAnswered ==
    /\ qpc = "calling"
    /\ \/ \E items \in ItemLists :
             /\ qresult' = items
             /\ qoutcomes' = Append(qoutcomes, "items")
       \/ /\ qresult' = <<>>
          /\ qoutcomes' = Append(qoutcomes, "no_items")
    /\ qpc' = "returned"
    /\ UNCHANGED <<qquery, attempt, qwaits>>
    /\ UNCHANGED <<mainVars, lookupVars, mergeVars, finalVars, importanceVars, sourceVars,
                   concurrentVars>>

\* the command exits with a non-zero code (CalledProcessError): a sleep and
\* the next attempt, or [] after the last attempt
QueryCommandFails ==
    /\ qpc = "calling"
    /\ qoutcomes' = Append(qoutcomes, "CalledProcessError")
    /\ IF MoreAttempts(attempt)
       THEN /\ qwaits' = Append(qwaits, wait_time(attempt))
            /\ attempt' = attempt + 1
            /\ UNCHANGED <<qpc, qresult>>
       ELSE /\ qresult' = <<>>
            /\ qpc' = "returned"
            /\ UNCHANGED <<attempt, qwaits>>
    /\ UNCHANGED qquery
    /\ UNCHANGED <<mainVars, lookupVars, mergeVars, finalVars, importanceVars, sourceVars,
                   concurrentVars>>

\* any other exception (the command is missing, the output is no JSON, the
\* JSON is no container): [] at once
QueryOtherError ==
    /\ qpc = "calling"
    /\ qoutcomes' = Append(qoutcomes, "Exception")
    /\ qresult' = <<>>
    /\ qpc' = "returned"
    /\ UNCHANGED <<qquery, attempt, qwaits>>
    /\ UNCHANGED <<mainVars, lookupVars, mergeVars, finalVars, importanceVars, sourceVars,
                   concurrentVars>>

QueryNext == QueryAnswered \/ QueryCommandFails \/ QueryOtherError

\* the call takes its next step: a command ends, a sleep ends
SpecQueryFair == InitQuery /\ [][QueryNext]_vars /\ WF_vars(QueryNext)

(***************************************************************************)
(* extract_docker_tools and the fold of what it returns (specification     *)
(* SpecSources)                                                            *)
(***************************************************************************)
MaxResults == 1

DOCKER_RECOMMENDED_STARS == 100

DefaultDocumentationUrl == ""

\* f"https://hub.docker.com/r/{repo_name}" on the repo names of the model
DockerUrl(repo_name) ==
    CASE repo_name = "kong" -> "https://hub.docker.com/r/kong"
      [] repo_name = "library/kong" -> "https://hub.docker.com/r/library/kong"
      [] OTHER -> "https://hub.docker.com/r/"

\* common.is_valid_tool: a name, a category and one of url, githubUrl
is_valid_tool(t) == t.name # "" /\ t.category # "" /\ (t.url # "" \/ t.githubUrl # "")

\* 'Recommended' if stars > 100 else 'Optional'
docker_importance(stars) ==
    IF stars > DOCKER_RECOMMENDED_STARS THEN "Recommended" ELSE "Optional"

\* the Tool built from one result of the response
docker_tool(r, category) ==
    Tool(r.name, r.description, category, docker_importance(r.star_count), TRUE,
         DockerUrl(r.repo_name), DefaultDocumentationUrl, "", r.star_count, "Docker",
         <<"docker", lowercase(category)>>, None)

RECURSIVE extract_docker_tools(_, _)
\* the loop over the results: a result with a name and a description gives
\* a Tool, appended if it is valid
extract_docker_tools(results, category) ==
    IF results = <<>> THEN <<>>
    ELSE LET r == Head(results)
             rest == extract_docker_tools(Tail(results), category)
         IN  IF r.name # "" /\ r.description # "" /\ is_valid_tool(docker_tool(r, category))
             THEN <<docker_tool(r, category)>> \o rest
             ELSE rest

\* the results Docker Hub may report
DockerStars == {0, 100, 101, 5001, 10000, 10001, 38000}
DockerResults ==
    [name : {"kong"}, description : {"", "api gateway image"}, repo_name : {"kong"},
     star_count : DockerStars]
DockerCategories == {"API Gateway", "Logging"}

\* an entry main may hold under the key of the Docker Hub record
KongImage ==
    Tool("Kong", "", "API Gateway", "", TRUE, "https://hub.docker.com/r/kong", "", "", 0, "",
         <<>>, <<>>)

InitSources ==
    /\ MainAtRest
    /\ LookupAtRest
    /\ ConcurrentAtRest
    /\ QueryAtRest
    /\ MergeAtRest
    /\ FinalAtRest
    /\ ImportanceAtRest
    /\ spc = "input"
    /\ scategory \in DockerCategories
    /\ sresults \in UNION {[1..n -> DockerResults] : n \in 0..MaxResults}
    /\ sexisting \in {<<>>, DictOfTools(<<KongImage>>)}
    /\ sextracted = <<>>
    /\ sfolded = <<>>

\* extract_docker_tools(content, category) returns
ExtractDocker ==
    /\ spc = "input"
    /\ sextracted' = extract_docker_tools(sresults, scategory)
    /\ spc' = "extracted"
    /\ UNCHANGED <<scategory, sresults, sexisting, sfolded>>
    /\ UNCHANGED <<mainVars, lookupVars, mergeVars, finalVars, importanceVars, concurrentVars, queryVars>>

\* the stage's list is folded into the dict
FoldExtracted ==
    /\ spc = "extracted"
    /\ sfolded' = merge_new_tools(sexisting, sextracted)
    /\ spc' = "folded"
    /\ UNCHANGED <<scategory, sresults, sexisting, sextracted>>
    /\ UNCHANGED <<mainVars, lookupVars, mergeVars, finalVars, importanceVars, concurrentVars, queryVars>>

SourcesNext == ExtractDocker \/ FoldExtracted

SpecSources == InitSources /\ [][SourcesNext]_vars

(***************************************************************************)
(* Properties of the orchestrator (specification Spec)                     *)
(***************************************************************************)
\* a list of tags, None counted as the empty list
OrTags(x) == IF x = None THEN <<>> ELSE x

\* a record with its lists of topics and tags taken as sets
TagsAsSets(t) == [t EXCEPT !.topics = Range(@), !.tags = Range(OrTags(@))]

UniqueKeys(ts) == \A i, j \in 1..Len(ts) : Key(ts[i]) = Key(ts[j]) => i = j

EntriesWithKey(ts, k) == {i \in 1..Len(ts) : Key(ts[i]) = k}

\* C1: after any fold, from any loaded checkpoint, no two distinct entries of
\* the working set (the list `tools`, the dict `existing_tools`) have the same
\* identity key, and every record folded or already present has exactly one
\* entry under its key: equal keys are merged, never duplicated.
C1_IdentityKeyUnique ==
    /\ UniqueKeys(tools)
    /\ UniqueKeys(Values(existing_tools))
    /\ pc = "save_rename" =>
          \A t \in Range(new_tools) \cup base :
              Cardinality(EntriesWithKey(tools, Key(t))) = 1

\* a fold from a loaded checkpoint in which two incoming records and a
\* checkpointed record all have one key
C1_Witness ==
    /\ pc = "save_rename"
    /\ Len(new_tools) = 2
    /\ Key(new_tools[1]) = Key(new_tools[2])
    /\ \E t \in base : Key(t) = Key(new_tools[1])
    /\ Cardinality(EntriesWithKey(tools, Key(new_tools[1]))) = 1

\* C2: at every point inside save_checkpoint at which the process can be
\* killed, load_checkpoint() of the next run would return every record the
\* working set held at the end of the previous stage.
C2_KillLosesAtMostInFlightStage ==
    pc \in {"save_open", "save_dump"} => base \subseteq Range(load_checkpoint)

\* C3: folding the awesome-list record of Kong and then the topic-search
\* record of Kong into an empty working set yields one entry, with the
\* homepage url, the githubUrl unchanged and importance Essential.
C3_KongExample ==
    (pc = "save_rename" /\ base = {} /\ new_tools = <<KongAwesome, KongTopic>>) =>
        /\ Len(tools) = 1
        /\ tools[1].url = KongHome
        /\ tools[1].githubUrl = KongGithub
        /\ tools[1].importance = "Essential"

\* C4: a stage that raises is never fatal to main: no run of main ends with
\* the exception of one of its stages.
C4_StageFailureNotFatal == ~(pc = "raised" /\ failedStage \in 1..NumStages)

RECURSIVE FullTrail(_)
\* call, fold and checkpoint of the stages 1..n, in order
FullTrail(n) ==
    IF n = 0 THEN <<>>
    ELSE FullTrail(n - 1) \o << <<"call", n>>, <<"fold", n>>, <<"save", n>> >>

IsPrefix(s, t) == Len(s) <= Len(t) /\ s = SubSeq(t, 1, Len(s))

C6_ResumeIsLossless ==
    (/\ pc = "save_rename"
     /\ stage = 1
     /\ new_tools # <<>>
     /\ Range(new_tools) \subseteq base)
        => {TagsAsSets(t) : t \in Range(tools)} = {TagsAsSets(t) : t \in base}

(***************************************************************************)
(* Properties of the lookup (specifications SpecLookup, SpecLookupFair)    *)
(***************************************************************************)
FailureCauses ==
    {"unsupported", "short_url", "exhausted", "provider_error", "exception", "save_failed"}

\* C7: extract_github_info never raises, whatever the url and whatever the
\* provider and the cache file do, and every lookup that fails returns the
\* default: stars 0, empty description, is_open_source true.
C7_LookupNeverRaises ==
    /\ result # Raised
    /\ (lpc = "idle" /\ cause \in FailureCauses) =>
          /\ result.stars = 0
          /\ result.description = ""
          /\ result.is_open_source = TRUE

\* a lookup that was retried after a timeout, got its answer and then failed
\* to write the cache file
C7_Witness ==
    /\ lpc = "idle"
    /\ cause = "save_failed"
    /\ outcomes = <<"TimeoutOrJSONDecodeError", "ok">>
    /\ result = DefaultInfo

AllRateLimited ==
    /\ outcomes # <<>>
    /\ \A i \in 1..Len(outcomes) : outcomes[i] = "rate_limit"

RetryBound ==
    /\ Len(outcomes) <= MAX_RETRIES + 1
    /\ retry_count <= MAX_RETRIES
    /\ (lpc = "idle" /\ AllRateLimited) =>
          /\ Len(outcomes) = MAX_RETRIES + 1
          /\ result = DefaultInfo

\* C8: a lookup makes at most MAX_RETRIES retries after its first provider
\* call; one whose every call is rate limited makes exactly that many and
\* then returns the default; every lookup that reached the provider returns.
C8_RateLimitTerminates ==
    /\ []RetryBound
    /\ (lpc = "attempt") ~> (lpc = "idle")

\* a lookup rate limited at all four calls has returned
C8_Witness ==
    /\ lpc = "idle"
    /\ outcomes = <<"rate_limit", "rate_limit", "rate_limit", "rate_limit">>
    /\ result = DefaultInfo

\* C9: a delay is slept before each retry and before no other call; the delay
\* before retry i is min(300, base_delay * 2^i), so none exceeds 300 seconds
\* and none is smaller than the one before it.
C9_BackoffDelays ==
    /\ Len(slept) = IF outcomes = <<>> THEN 0 ELSE Len(outcomes) - 1
    /\ \A i \in 1..Len(slept) :
          /\ slept[i] = Min(300, base_delay * 2^i)
          /\ slept[i] <= 300
          /\ i > 1 => slept[i - 1] <= slept[i]

\* three retries were slept for with the largest base delay
C9_Witness ==
    /\ Len(slept) = MAX_RETRIES
    /\ base_delay = 3
    /\ slept[MAX_RETRIES] = 24

\* C10: github_cache and the cache file hold only results of successful
\* provider responses; after a lookup that ended in the default because the
\* retries were exhausted, the provider failed or the url is not supported,
\* neither has an entry for the url.
C10_CacheHoldsOnlySuccesses ==
    /\ github_cache \subseteq fetched
    /\ cache_file.data \subseteq fetched
    /\ (lpc = "idle" /\ cause \in FailureCauses \ {"save_failed"}) =>
          /\ ~InCache(github_cache, lurl)
          /\ ~InCache(cache_file.data, lurl)

\* a later process calls the provider for a url whose lookup ended in the
\* default in an earlier process
C10_Witness ==
    /\ lpc = "attempt"
    /\ lurl \in defaulted
    /\ ~InCache(github_cache, lurl)
    /\ ~InCache(cache_file.data, lurl)

C12_CreatedEntryIsStable ==
    \A e \in persisted :
        /\ cache_file.st = "ok" /\ e \in cache_file.data
        /\ lpc = "attempt" => lurl # e.url
        /\ (lpc = "idle" /\ cause # "none" /\ lurl = e.url) => result = e.info

\* C13 as stated: a lookup of a url that is a key of github_cache makes no
\* provider call and returns the value github_cache holds for it.
C13_CachedUrlAnsweredFromCache ==
    /\ lpc = "attempt" => ~InCache(github_cache, lurl)
    /\ (lpc = "idle" /\ cause # "none" /\ outcomes = <<>> /\ InCache(github_cache, lurl))
           => result = CacheGet(github_cache, lurl)

C15_FetchedEntryIsOnFile ==
    (lpc = "idle" /\ outcomes # <<>> /\ outcomes[Len(outcomes)] = "ok"
        /\ result \notin {DefaultInfo, Raised})
        => /\ cache_file.st = "ok"
           /\ [url |-> lurl, info |-> result] \in cache_file.data
           /\ [url |-> lurl, info |-> result] \in github_cache
           /\ cache_file.data = github_cache

\* the second url fetched in a process: the file holds both entries
C15_Witness ==
    /\ lpc = "idle"
    /\ cause = "fetched"
    /\ lurl = UrlIstio
    /\ InCache(cache_file.data, UrlKong)
    /\ InCache(cache_file.data, UrlIstio)

TimeoutSeen == \E i \in 1..Len(outcomes) : outcomes[i] = "TimeoutOrJSONDecodeError"

\* C16: a lookup whose provider calls end in timeouts or malformed JSON
\* (rate limits among them or not) makes at most MAX_RETRIES + 1 calls, sleeps
\* min(300, base * 2^i) before retry i, and, its retries used up, returns the
\* default with nothing cached for the url.
C16_TimeoutRetriedLikeRateLimit ==
    (TimeoutSeen /\ \A i \in 1..Len(outcomes) : outcomes[i] \in RetryOutcomes)
        => /\ Len(outcomes) <= MAX_RETRIES + 1
           /\ Len(slept) <= MAX_RETRIES
           /\ \A i \in 1..Len(slept) : slept[i] = Min(SLEEP_CAP, base_delay * Pow2(i))
           /\ lpc = "idle" => /\ Len(outcomes) = MAX_RETRIES + 1
                              /\ Len(slept) = MAX_RETRIES
                              /\ result = DefaultInfo
                              /\ ~InCache(github_cache, lurl)
                              /\ ~InCache(cache_file.data, lurl)

\* four timeouts in a row, the cache holding another url
C16_Witness ==
    /\ lpc = "idle"
    /\ outcomes = [i \in 1..(MAX_RETRIES + 1) |-> "TimeoutOrJSONDecodeError"]
    /\ result = DefaultInfo
    /\ github_cache # {}

(***************************************************************************)
(* Properties of merge_tools (specification SpecMerge)                     *)
(***************************************************************************)
OrFields == {"description", "category", "importance", "url", "documentationUrl", "githubUrl"}

\* C17: each of description, category, importance, url, documentationUrl and
\* githubUrl of merge_tools(existing, new) is existing's value when that is
\* non-empty, and new's value when existing's is empty.
C17_ExistingFieldsWin ==
    mpc \in {"merged", "again"} =>
        \A f \in OrFields :
            /\ merge_existing[f] # "" => merged[f] = merge_existing[f]
            /\ merge_existing[f] = "" => merged[f] = merge_new[f]

\* both hold a url, and they differ; only `new` has a description
C17_Witness ==
    /\ mpc = "merged"
    /\ merge_existing.url # "" /\ merge_new.url # "" /\ merge_existing.url # merge_new.url
    /\ merged.url = merge_existing.url
    /\ merge_existing.description = "" /\ merge_new.description # ""
    /\ merged.description = merge_new.description

\* C18: merge_tools(existing, new) has existing's name and existing's
\* isOpenSource, whatever new holds in the two fields.
C18_NameAndFlagOfExisting ==
    mpc \in {"merged", "again"} =>
        /\ merged.name = merge_existing.name
        /\ merged.isOpenSource = merge_existing.isOpenSource

\* another name and a true flag in `new`, a false flag in `existing`
C18_Witness ==
    /\ mpc = "merged"
    /\ merge_new.name = "Istio"
    /\ ~merge_existing.isOpenSource /\ merge_new.isOpenSource
    /\ merged.name = "Kong" /\ ~merged.isOpenSource

\* C19: the tags of merge_tools(a, b) are the union of a's and b's tags, None
\* counted as no tags and each tag held once, and are, as a set, the tags of
\* merge_tools(b, a).
C19_TagsAreTheUnion ==
    mpc \in {"merged", "again"} =>
        /\ Range(merged.tags) = Range(OrTags(merge_existing.tags)) \cup Range(OrTags(merge_new.tags))
        /\ Len(merged.tags) = Cardinality(Range(merged.tags))
        /\ Range(merged.tags) = Range(merged_rev.tags)
        /\ Len(merged_rev.tags) = Cardinality(Range(merged_rev.tags))

\* a tag twice in a, a tag in both, a tag in b only
C19_Witness ==
    /\ mpc = "merged"
    /\ merge_existing.tags = <<"gateway", "proxy", "gateway">>
    /\ merge_new.tags = <<"proxy", "lua">>
    /\ Range(merged.tags) = {"gateway", "proxy", "lua"}
    /\ Len(merged.tags) = 3

\* C20: for a and b of equal identity keys, merge_tools(a, merge_tools(a, b))
\* is merge_tools(a, b), tags compared as sets.
C20_MergeTwiceIsMergeOnce ==
    (mpc = "again" /\ Key(merge_existing) = Key(merge_new))
        => TagsAsSets(merged_again) = TagsAsSets(merged)

\* equal keys, a description and tags that come from b
C20_Witness ==
    /\ mpc = "again"
    /\ Key(merge_existing) = Key(merge_new)
    /\ merge_existing.url # ""
    /\ merge_existing.description = "" /\ merged.description # ""
    /\ merge_existing.tags = <<"gateway", "proxy", "gateway">>
    /\ merge_new.tags = <<"proxy", "lua">>
    /\ merged_again = merged

(***************************************************************************)
(* The identity key, the checkpoint file and the importance rule           *)
(***************************************************************************)
\* the names of the model that differ in letter case only
CaseClasses ==
    {{"Kong", "KONG", "kong"}, {"Istio", "istio"}, {"Kubernetes", "kubernetes"},
     {"Docker", "docker"}, {"GIT", "git"}}

EqualIgnoringCase(a, b) == a = b \/ \E c \in CaseClasses : a \in c /\ b \in c

SameIdentity(a, b) ==
    /\ EqualIgnoringCase(a.name, b.name)
    /\ a.url = b.url
    /\ a.githubUrl = b.githubUrl

\* the records main has in hand: loaded, incoming and folded
RecordsInHand == base \cup Range(new_tools) \cup Range(tools)

\* C21: the dedup key of a record is (lowercase(name), url, githubUrl): two
\* records have the same key exactly when their names are equal ignoring
\* letter case and their url and githubUrl are equal, empty strings included;
\* the dict built from the checkpoint and after a stage is keyed by it, and
\* the fold leaves no two entries with one identity.
C21_DedupKey ==
    /\ \A a, b \in RecordsInHand : (Key(a) = Key(b)) <=> SameIdentity(a, b)
    /\ \A i \in 1..Len(existing_tools) :
           existing_tools[i].k = <<lowercase(existing_tools[i].v.name),
                                   existing_tools[i].v.url,
                                   existing_tools[i].v.githubUrl>>
    /\ pc = "save_rename" =>
          /\ \A i, j \in 1..Len(tools) : SameIdentity(tools[i], tools[j]) => i = j
          /\ \A t \in base \cup Range(new_tools) :
                 \E i \in 1..Len(tools) : SameIdentity(tools[i], t)

\* a fold, on a loaded checkpoint, of two records whose names differ in letter
\* case only and whose url is empty: one entry afterwards
C21_Witness ==
    /\ pc = "save_rename"
    /\ base # {}
    /\ Len(new_tools) = 2
    /\ new_tools[1].name # new_tools[2].name
    /\ new_tools[1].url = ""
    /\ SameIdentity(new_tools[1], new_tools[2])
    /\ \E t \in base : SameIdentity(t, new_tools[1])
    /\ Len(tools) = 1

AsSets(ts) == [i \in 1..Len(ts) |-> TagsAsSets(ts[i])]

Loads == pc \in {"idle", "killed", "raised"} /\ runs' = runs + 1

\* C23: a load that finds an unparseable checkpoint file returns the empty
\* list without raising: main goes on to its first stage with an empty dict,
\* the corrupt content is under the backup name of that second and no file
\* is left at the checkpoint path.
C23_CorruptLoadReturnsEmpty ==
    [][(Loads /\ ckpt = Corrupt) =>
          /\ pc' = "scrape"
          /\ existing_tools' = <<>>
          /\ backups'[now] = Corrupt
          /\ ckpt' = Absent]_vars

\* C24: every backup file ever created, by the load (the corrupt file) or by
\* a save (the previous generation), is still on disk under its name with
\* the content it was created with.
C24_BackupsAreKept ==
    \A m \in made : backups[m.t] = m.content

InSave == pc \in {"save_rename", "save_open", "save_dump"}

\* C25: a save that finds a checkpoint file first renames it to the backup
\* of that second, and nothing is written at the checkpoint path by that
\* step; the later steps of the save leave the backups alone; a save that
\* completes leaves exactly the new records at the checkpoint path.
C25_BackupBeforeWrite ==
    [][/\ (pc = "save_rename" /\ pc' = "save_open" /\ ckpt # Absent) =>
              /\ backups'[now] = ckpt
              /\ ckpt' = Absent
       /\ pc = "save_rename" => ckpt' \in {ckpt, Absent}
       /\ (pc \in {"save_open", "save_dump"} /\ now' = now) => backups' = backups
       /\ (pc = "save_dump" /\ ~InSave' /\ ckpt' # ckpt) =>
              ckpt' = File([i \in 1..Len(tools) |-> to_dict(tools[i])])]_vars

\* the first process found a checkpoint, saved after its first stage, and
\* the file it found is the backup
C25_Witness ==
    /\ runs = 1
    /\ pc = "scrape"
    /\ stage = 2
    /\ ckpt = File([i \in 1..Len(tools) |-> to_dict(tools[i])])
    /\ \E t \in 0..MaxTime : backups[t] \in InitialCheckpoints \ {Absent} /\ backups[t] # ckpt

\* C26: a save_checkpoint that ends because its rename, open or write raised
\* returns to main: main does not raise, goes on to the next stage, and its
\* list and dict are what they were.
C26_SaveFailureIsSwallowed ==
    [][(InSave /\ ~InSave' /\ pc' # "killed" /\ ckpt' = ckpt) =>
          /\ pc' = (IF stage < NumStages THEN "scrape" ELSE "finalize")
          /\ stage' = stage + 1
          /\ tools' = tools
          /\ existing_tools' = existing_tools]_vars

\* the write of the first save failed and main is at its second stage with
\* its working set
C26_Witness ==
    /\ pc = "scrape"
    /\ stage = 2
    /\ ckpt = Corrupt
    /\ tools # <<>>
    /\ existing_tools = DictOfTools(tools)

\* C27: when a save_checkpoint ends because its rename, open or write
\* raised, load_checkpoint() returns the records the last save that
\* completed wrote.
C27_FailedSaveKeepsLastCheckpoint ==
    [][(InSave /\ ~InSave' /\ pc' # "killed" /\ ckpt' = ckpt) =>
          AsSets(load_checkpoint)' = AsSets(lastSaved)']_vars

\* C29: main raises to its caller only when the initial load_checkpoint
\* raised or a write of the finalization raised; no stage's error does.
C29_OnlyLoadOrFinalizationIsFatal ==
    pc = "raised" => failedStage \in {0, NumStages + 1}

(***************************************************************************)
(* Properties of the finalization (specification SpecFinalize)             *)
(***************************************************************************)
RECURSIVE SumOfCounts(_)
SumOfCounts(d) == IF d = <<>> THEN 0 ELSE Head(d).v + SumOfCounts(Tail(d))

\* category_stats.json and tools.json are written in full, the statistics
\* counting the records of the catalog by category
StatisticsAndCatalogPersisted ==
    /\ category_stats.st = "ok"
    /\ tools_json.st = "ok"
    /\ LET stats == category_stats.data
           catalog == tools_json.data
       IN  /\ \A i, j \in 1..Len(stats) : stats[i].k = stats[j].k => i = j
           /\ {stats[i].k : i \in 1..Len(stats)} = {catalog[n].category : n \in 1..Len(catalog)}
           /\ \A i \in 1..Len(stats) :
                  stats[i].v = Cardinality({n \in 1..Len(catalog) : catalog[n].category = stats[i].k})
           /\ SumOfCounts(stats) = Len(catalog)

\* in SpecFinalize: a finalization that completes persists the statistics
\* and the catalog of main's working set
FinalizationPersists ==
    pc = "done" =>
        /\ StatisticsAndCatalogPersisted
        /\ tools_json = File([i \in 1..Len(tools) |-> to_dict(tools[i])])

InAllowList(name) == \E e \in essential_tools : EqualIgnoringCase(name, e)

Rank(i) == CASE i = "Optional" -> 1 [] i = "Recommended" -> 2 [] i = "Essential" -> 3

\* C30: the call returns Essential when stars > 10000 or the name, letter
\* case aside, is in the allow-list; otherwise Recommended when
\* 5000 < stars <= 10000; otherwise Optional; and with more stars the same
\* name never gets a lower result.
C30_ImportanceRule ==
    ipc = "returned" =>
        /\ ireturned = (IF istars > 10000 \/ InAllowList(iname) THEN "Essential"
                         ELSE IF 5000 < istars /\ istars <= 10000 THEN "Recommended"
                         ELSE "Optional")
        /\ Rank(ireturned) <= Rank(ireturned_more)

\* a name outside the allow-list at 10000 stars and at 10001
C30_Witness ==
    /\ ipc = "returned"
    /\ ~InAllowList(iname)
    /\ istars = 10000
    /\ imore = 10001
    /\ ireturned = "Recommended"
    /\ ireturned_more = "Essential"

(***************************************************************************)
(* Properties of the extractors (specification SpecSources)                *)
(***************************************************************************)
ImportanceInvariant(t) == t.stars > 10000 => t.importance = "Essential"

\* C31: every record an extractor returns and every record of the working
\* set it is folded into has importance Essential when its stars are above
\* 10000.
C31_ImportanceInvariant ==
    /\ \A t \in Range(sextracted) : ImportanceInvariant(t)
    /\ \A t \in Range(sfolded) : ImportanceInvariant(t)

(***************************************************************************)
(* Further properties of the orchestrator (specification Spec)             *)
(***************************************************************************)
\* every key of the dict is (lowercase(name), url, githubUrl) of its record
KeyedByIdentity(d) ==
    \A i \in 1..Len(d) : d[i].k = <<lowercase(d[i].v.name), d[i].v.url, d[i].v.githubUrl>>

\* C32: the dict main builds from the loaded checkpoint and after a fold,
\* and the dict the fold works on, have every record under its identity key
\* (lowercase(name), url, githubUrl); a fold leaves every entry that was in
\* the dict at its place with the url and githubUrl it had.
C32_KeysMatchRecords ==
    [][/\ KeyedByIdentity(existing_tools')
       /\ (pc = "scrape" /\ pc' = "save_rename") =>
              /\ KeyedByIdentity(FoldTools(existing_tools, new_tools'))
              /\ Len(tools') >= Len(existing_tools)
              /\ \A i \in 1..Len(existing_tools) :
                     /\ tools'[i].url = existing_tools[i].v.url
                     /\ tools'[i].githubUrl = existing_tools[i].v.githubUrl]_vars

\* a loaded entry has had an incoming record with other fields folded into it
C32_Witness ==
    /\ pc = "save_rename"
    /\ base # {}
    /\ \E t \in base : \E i \in 1..Len(new_tools) :
           /\ SameIdentity(t, new_tools[i])
           /\ new_tools[i].description # t.description
           /\ t \notin Range(tools)

KeysOf(ts) == {<<lowercase(t.name), t.url, t.githubUrl>> : t \in Range(ts)}

\* C34: the fold of a stage's output keeps every entry of the dict: the
\* keys of the list it returns include every key of the dict, and an entry
\* whose key is the key of no record of the output is in the list, at its
\* place, as it was.
C34_FoldKeepsEntries ==
    [][(pc = "scrape" /\ pc' = "save_rename") =>
          /\ KeysOf(Values(existing_tools)) \subseteq KeysOf(tools')
          /\ KeysOf(Values(existing_tools)) \subseteq KeysOf(Values(existing_tools'))
          /\ \A i \in 1..Len(existing_tools) :
                 existing_tools[i].k \notin KeysOf(new_tools') =>
                     /\ i <= Len(tools')
                     /\ tools'[i] = existing_tools[i].v]_vars

\* a fold has added an entry under a new key next to a loaded entry it left
\* alone
C34_Witness ==
    /\ pc = "save_rename"
    /\ new_tools # <<>>
    /\ \E t \in base :
           /\ <<lowercase(t.name), t.url, t.githubUrl>> \notin KeysOf(new_tools)
           /\ t \in Range(tools)
    /\ Len(tools) > Cardinality(base)

(***************************************************************************)
(* Further properties of the lookup (specification SpecLookup)             *)
(***************************************************************************)
\* the provider call of this step ends in outcome o
CallEnds(o) == lpc = "attempt" /\ outcomes' = Append(outcomes, o)

\* the lookup returns the default and leaves both caches as they were
EndsWithDefault ==
    /\ lpc' = "idle"
    /\ result' = DefaultInfo
    /\ retry_count' = retry_count
    /\ github_cache' = github_cache
    /\ cache_file' = cache_file

\* C35: a non-zero exit that is no rate limit ends the lookup with the
\* default at that provider call, the only one when it is the first, with
\* no retry and no write to the cache or its file; so does a rate limit
\* received when retry_count is MAX_RETRIES.
C35_OtherFailureEndsLookup ==
    [][/\ CallEnds("error") =>
              /\ EndsWithDefault
              /\ retry_count = 0 => outcomes' = <<"error">>
       /\ (CallEnds("rate_limit") /\ retry_count = MAX_RETRIES) => EndsWithDefault]_vars

\* a lookup has ended at its first provider call, which reported another
\* error
C35_Witness ==
    /\ lpc = "idle"
    /\ cause = "provider_error"
    /\ outcomes = <<"error">>
    /\ result = DefaultInfo
    /\ ~InCache(github_cache, lurl)

\* C36: when the provider has answered and the cache file does not hold the
\* cache afterwards (save_github_cache raised), the lookup returns the
\* default, which is what the wrapper memoizes, while github_cache holds the
\* fetched entry, which the file lacks.
C36_SaveFailureSplitsCaches ==
    [][(CallEnds("ok") /\ cache_file' # save_github_cache(github_cache')) =>
          /\ lpc' = "idle"
          /\ result' = DefaultInfo
          /\ MemoGet(memo', <<lurl>>) = DefaultInfo
          /\ InCache(github_cache', lurl)
          /\ CacheGet(github_cache', lurl) # DefaultInfo
          /\ [url |-> lurl, info |-> CacheGet(github_cache', lurl)] \in fetched'
          /\ cache_file' \in {cache_file, CacheCorrupt}]_vars

\* the two lookups so far were of one url in one process: the first fetched
\* an entry, failed to save it and returned the default; the second, after
\* the memoized default was evicted, returned the entry from github_cache
C36_Witness ==
    /\ lpc = "idle"
    /\ lookups = 2
    /\ lastGap >= 0
    /\ cause = "cache"
    /\ result # DefaultInfo
    /\ [url |-> lurl, info |-> result] \in fetched \ persisted
    /\ cache_file # save_github_cache(github_cache)

(***************************************************************************)
(* Properties of two processes on one cache file (specification            *)
(* SpecConcurrent)                                                         *)
(***************************************************************************)
\* C37: a save of a process leaves in the file exactly the entries of that
\* process's own dict, whatever the file held: an entry another process
\* has written and this dict lacks is no longer in the file.
C37_SaveRewritesWholeFile ==
    [][\A p \in Procs :
          caches'[p] # caches[p] /\ cpc[p] = "loaded" =>
              /\ cache_file' = CacheFile(caches'[p])
              /\ \A e \in load_github_cache :
                     ~InCache(caches'[p], e.url) => ~InCache(cache_file'.data, e.url)]_vars

\* both processes are running, an entry one of them has written to the
\* file is in its dict and no longer in the file, which holds the other's
C37_Witness ==
    /\ \A p \in Procs : cpc[p] = "loaded"
    /\ \E p, q \in Procs : \E e \in written :
           /\ e \in caches[p]
           /\ ~InCache(caches[q], e.url)
           /\ cache_file = CacheFile(caches[q])
           /\ ~InCache(cache_file.data, e.url)

(***************************************************************************)
(* Properties of run_github_query (specification SpecQueryFair)            *)
(***************************************************************************)
Failures(os) == {i \in 1..Len(os) : os[i] = "CalledProcessError"}

\* what holds of a call at any moment: at most 3 commands, all but the last
\* failed commands; a wait of 5 * n after the n-th failed command, n = 1, 2,
\* and none after the third; once returned, the empty list unless the last
\* command gave items
QueryBounded ==
    /\ qpc \in {"calling", "returned"}
    /\ Len(qoutcomes) <= 3
    /\ \A i \in 1..Len(qoutcomes) - 1 : qoutcomes[i] = "CalledProcessError"
    /\ Len(qwaits) <= 2
    /\ Len(qwaits) = (IF Cardinality(Failures(qoutcomes)) = 3 THEN 2
                      ELSE Cardinality(Failures(qoutcomes)))
    /\ \A n \in 1..Len(qwaits) : qwaits[n] = 5 * n
    /\ qpc = "calling" => Failures(qoutcomes) = 1..Len(qoutcomes)
    /\ qpc = "returned" =>
          /\ qoutcomes # <<>>
          /\ qoutcomes[Len(qoutcomes)] # "items" => qresult = <<>>
          /\ qoutcomes[Len(qoutcomes)] = "CalledProcessError" => Len(qoutcomes) = 3

====
